---- MODULE Spec2Model ----
(***************************************************************************)
(* Article intake triage and weekly selection (khatvangi/thebeakers).      *)
(*                                                                         *)
(* The store is the sqlite database articles.db: the tables triage_run,    *)
(* model_vote, triage_result and issue are sets of rows.  The LLM response *)
(* cache (cache/llm/*.json) and the downloaded papers (data/papers) are    *)
(* the two file-system stores.  One action per script entry point.         *)
(*                                                                         *)
(* A python dict is a function whose DOMAIN is its set of keys, so that    *)
(* dict.get(key, default) and the truth value of a dict are modelled as    *)
(* the code computes them.                                                 *)
(***************************************************************************)
EXTENDS Integers, Sequences, FiniteSets, TLC

VARIABLES
    triage_run,     \* table triage_run: set of [run_id, week_of]
    run_loop,       \* per run: position of run_triage's loop over the articles
    model_vote,     \* table model_vote: set of vote rows
    triage_result,  \* table triage_result: set of rows, key (run_id, article_url)
    issue,          \* table issue: set of rows, key (week_of, discipline, article_url)
    cache,          \* cache/llm: set of [role, url, data], one file per key
    papers,         \* data/papers/<article_id>/paper.pdf: urls whose pdf is on disk
    selected,       \* history: the (week_of, discipline) pairs a committed selection
                    \* has run for and left without rows
    selecting,      \* per concurrent selection invocation: its position and the
                    \* issue rows it has written
    txn,            \* the triage process's position in triage_article and its
                    \* connection's open transaction (triage run step by step)
    ret,            \* what the last triage_article / select_for_discipline call returned
    fn_in,          \* argument of the pure function under check (pure specifications)
    fn_out          \* <<>> before the call, <<result>> after it

vars == <<triage_run, run_loop, model_vote, triage_result, issue, cache, papers,
          selected, selecting, txn, ret, fn_in, fn_out>>

store_vars == <<triage_run, run_loop, model_vote, triage_result, issue, cache,
                papers, selected, selecting, txn, ret>>

-----------------------------------------------------------------------------
(* Bounds of the model *)

MaxUrls == 2
MaxRuns == 2
MaxWeeks == 1
MaxLimit == 2
MaxResults == 2
MaxSelectors == 2

Urls == 1..MaxUrls
Runs == 1..MaxRuns
Weeks == 1..MaxWeeks
Limits == 1..MaxLimit
Selectors == 1..MaxSelectors

-----------------------------------------------------------------------------
(* python dicts *)

EmptyDict == [k \in {} |-> 0]

Get(d, k, default) == IF k \in DOMAIN d THEN d[k] ELSE default

Truthy(d) == DOMAIN d # {}

ScoreKeys == {"S", "E", "T", "M", "H"}

(* the dict d with only the keys of ks left *)
Restrict(d, ks) == [k \in ks |-> d[k]]

(* every dict obtained from a dict of fulls by dropping any of its keys *)
SubDicts(fulls, keys) == { Restrict(d, ks) : d \in fulls, ks \in SUBSET keys }

-----------------------------------------------------------------------------
(* triage.py: merge and routing *)

ConfidenceDefault == 5      \* confidence in tenths: 0.5

(* variant of merge_scores that prefers the builder's E: MergePrecedence   *)
(* must tell it from merge_scores                                          *)
merge_scores_builder_E(builder, skeptic) ==
    [ S |-> Get(builder, "S", 0),
      E |-> Get(builder, "E", Get(skeptic, "E", 0)),
      T |-> Get(builder, "T", 0),
      M |-> Get(builder, "M", 0),
      H |-> Get(skeptic, "H", Get(builder, "H", 0)),
      tldr |-> Get(builder, "tldr", ""),
      pivot_figure |-> Get(builder, "pivot_figure", ""),
      course_hooks |-> Get(builder, "course_hooks", <<>>),
      skeptic_adjustments |-> Get(skeptic, "adjustments", EmptyDict),
      confidence |-> Get(skeptic, "confidence", ConfidenceDefault) ]

merge_scores(builder, skeptic) ==
    [ S |-> Get(builder, "S", 0),
      E |-> Get(skeptic, "E", Get(builder, "E", 0)),
      T |-> Get(builder, "T", 0),
      M |-> Get(builder, "M", 0),
      H |-> Get(skeptic, "H", Get(builder, "H", 0)),
      tldr |-> Get(builder, "tldr", ""),
      pivot_figure |-> Get(builder, "pivot_figure", ""),
      course_hooks |-> Get(builder, "course_hooks", <<>>),
      skeptic_adjustments |-> Get(skeptic, "adjustments", EmptyDict),
      confidence |-> Get(skeptic, "confidence", ConfidenceDefault) ]

(* variant of compute_route whose digest rule comes before its indepth     *)
(* rule: RouteFirstMatch must tell it from compute_route                   *)
compute_route_digest_first(scores) ==
    LET S == Get(scores, "S", 0)
        E == Get(scores, "E", 0)
        T == Get(scores, "T", 0)
        M == Get(scores, "M", 0)
        H == Get(scores, "H", 0)
    IN  IF T <= 1 \/ (H >= 4 /\ E <= 3) THEN <<"reject", FALSE>>
        ELSE IF E >= 3 /\ T >= 3 /\ (S >= 3 \/ M >= 3) /\ H <= 3 THEN <<"digest", FALSE>>
        ELSE IF E >= 4 /\ T >= 4 /\ (S >= 4 \/ M >= 4) /\ H <= 2 THEN <<"indepth", FALSE>>
        ELSE IF T >= 2 /\ (S >= 3 \/ M >= 3) THEN <<"blurb", E <= 2>>
        ELSE <<"reject", FALSE>>

compute_route(scores) ==
    LET S == Get(scores, "S", 0)
        E == Get(scores, "E", 0)
        T == Get(scores, "T", 0)
        M == Get(scores, "M", 0)
        H == Get(scores, "H", 0)
    IN  IF T <= 1 \/ (H >= 4 /\ E <= 3) THEN <<"reject", FALSE>>
        ELSE IF E >= 4 /\ T >= 4 /\ (S >= 4 \/ M >= 4) /\ H <= 2 THEN <<"indepth", FALSE>>
        ELSE IF E >= 3 /\ T >= 3 /\ (S >= 3 \/ M >= 3) /\ H <= 3 THEN <<"digest", FALSE>>
        ELSE IF T >= 2 /\ (S >= 3 \/ M >= 3) THEN <<"blurb", E <= 2>>
        ELSE <<"reject", FALSE>>

-----------------------------------------------------------------------------
(* Initial store: the schema exists, every table and both file stores empty *)

NoRet == [op |-> "none"]

(* no call of triage_article under way, no transaction open *)
NoTxn == [pc |-> "idle", run_id |-> 0, url |-> 0, builder_result |-> EmptyDict,
          votes |-> {}, rows |-> {}]

(* a selection invocation that has not started *)
Idle == [pc |-> "idle", week_of |-> 0, discipline |-> "", wrote |-> {}]

StoreInit ==
    /\ triage_run = {}
    /\ run_loop = [r \in Runs |-> [pc |-> "none", done |-> {}]]
    /\ model_vote = {}
    /\ triage_result = {}
    /\ issue = {}
    /\ cache = {}
    /\ papers = {}
    /\ selected = {}
    /\ selecting = [p \in Selectors |-> Idle]
    /\ txn = NoTxn
    /\ ret = NoRet

-----------------------------------------------------------------------------
(* Pure specification: compute_route applied to every score vector of 0..5 *)

ScoreRange == 0..5

ScoreVectors == [ScoreKeys -> ScoreRange]

InitRoute ==
    /\ StoreInit
    /\ fn_in \in ScoreVectors
    /\ fn_out = <<>>

ApplyComputeRoute ==
    /\ fn_out = <<>>
    /\ fn_out' = <<compute_route(fn_in)>>
    /\ UNCHANGED <<store_vars, fn_in>>

NextRoute == ApplyComputeRoute

SpecRoute == InitRoute /\ [][NextRoute]_vars

-----------------------------------------------------------------------------
(* Pure specification: merge_scores applied to builder and skeptic dicts   *)
(* with any subset of their keys present                                   *)

BuilderKeys == ScoreKeys \cup {"tldr", "pivot_figure", "course_hooks"}

BuilderFull ==
    [S : {3, 5}, E : {3, 5}, T : {3, 5}, M : {3, 5}, H : {3, 5},
     tldr : {"a summary"}, pivot_figure : {"a figure"}, course_hooks : {<<"a course">>}]

SkepticKeys == {"S", "E", "H", "confidence"}

SkepticFull == [S : {4}, E : {1, 2}, H : {1, 2}, confidence : {9}]

InitMerge ==
    /\ StoreInit
    /\ fn_in \in [builder : SubDicts(BuilderFull, BuilderKeys),
                  skeptic : SubDicts(SkepticFull, SkepticKeys)]
    /\ fn_out = <<>>

ApplyMergeScores ==
    /\ fn_out = <<>>
    /\ fn_out' = <<merge_scores(fn_in.builder, fn_in.skeptic)>>
    /\ UNCHANGED <<store_vars, fn_in>>

NextMerge == ApplyMergeScores

SpecMerge == InitMerge /\ [][NextMerge]_vars

-----------------------------------------------------------------------------
(* The archive: article candidates, read-only here.  The discipline of an  *)
(* article is fixed; add_to_archive replaces its headline and teaser.      *)

Disciplines == {"chemistry", "physics"}

DisciplineOf(url) == IF url % 3 = 0 THEN "physics" ELSE "chemistry"

NULL == "NULL"

MODEL_BUILDER == "qwen3:latest"
MODEL_SKEPTIC == "gemma2:9b"

-----------------------------------------------------------------------------
(* What the inference endpoint can answer.  A reply is an exception of     *)
(* call_ollama (kind raise), text extract_json cannot parse (kind none) or *)
(* a parsed json object (kind json), the empty object included.            *)

BuilderOutputs ==
    { [S |-> 5, E |-> 5, T |-> 5, M |-> 5, H |-> 0,
       tldr |-> "a summary", pivot_figure |-> "a figure", course_hooks |-> <<"a course">>],
      [S |-> 3, E |-> 1, T |-> 3, M |-> 0, H |-> 1,
       tldr |-> "a summary", pivot_figure |-> "a figure", course_hooks |-> <<"a course">>] }

SkepticOutputs ==
    { [S |-> 0, E |-> 1, T |-> 0, M |-> 0, H |-> 1, confidence |-> 9] }

EvidenceOutputs ==
    { [E |-> 4, H |-> 0], [E |-> 2, H |-> 1] }

(* Objects the endpoint can also answer.  No code between extract_json and *)
(* the INSERT or UPDATE looks at the keys or the values of the object: a   *)
(* score outside 0..5 and an object without one of its scores are parsed   *)
(* like any other.                                                         *)
UncheckedBuilderOutputs ==
    { [S |-> 7, E |-> 1, T |-> 3, M |-> 0, H |-> 1,
       tldr |-> "a summary", pivot_figure |-> "a figure", course_hooks |-> <<"a course">>],
      [S |-> 3, T |-> 3, M |-> 0,
       tldr |-> "a summary", pivot_figure |-> "a figure", course_hooks |-> <<"a course">>] }

UncheckedSkepticOutputs ==
    { [S |-> 0, E |-> 1, T |-> 0, M |-> 0, H |-> 1, confidence |-> 9],
      [E |-> 0 - 1, confidence |-> 9] }

UncheckedEvidenceOutputs ==
    { [E |-> 9, H |-> 0], [H |-> 1] }

Replies(outputs) ==
    { [kind |-> "raise", json |-> EmptyDict], [kind |-> "none", json |-> EmptyDict] }
    \cup [kind : {"json"}, json : outputs \cup {EmptyDict}]

(* extract_json: None (modelled as the empty dict, both are falsy where    *)
(* the result is tested) or the parsed object                              *)
extract_json(reply) == IF reply.kind = "json" THEN reply.json ELSE EmptyDict

-----------------------------------------------------------------------------
(* The response cache.  The key is (model, role, md5 of the prompt); the   *)
(* builder and skeptic prompts are formatted from the article's archive    *)
(* record (the skeptic's also from the builder result), the evidence       *)
(* prompt from the article's pdf, so the key is modelled as (role, url).   *)

cache_key(role, url) == <<role, url>>

load_cache(c, key) ==
    IF \E f \in c : f.key = key
    THEN (CHOOSE f \in c : f.key = key).data
    ELSE EmptyDict

save_cache(c, key, data) ==
    { f \in c : f.key # key } \cup { [key |-> key, data |-> data] }

(* telegram_curator.add_to_archive: INSERT OR REPLACE of an article's      *)
(* record.  The prompts formatted from it change, so the cache files under *)
(* the old prompt hashes are never looked up again: they are dropped.      *)
add_to_archive(c, urls) ==
    { f \in c : \A u \in urls : f.key \notin {cache_key("builder", u),
                                              cache_key("skeptic", u)} }

-----------------------------------------------------------------------------
(* triage.py: the committee *)

run_model(role, url, reply, c) ==
    LET key == cache_key(role, url)
        cached == load_cache(c, key)
        result == extract_json(reply)
    IN  IF Truthy(cached)
        THEN [result |-> cached, raised |-> FALSE, calls |-> 0, cache |-> c]
        ELSE IF reply.kind = "raise"
        THEN [result |-> EmptyDict, raised |-> TRUE, calls |-> 1, cache |-> c]
        ELSE IF Truthy(result)
        THEN [result |-> result, raised |-> FALSE, calls |-> 1,
              cache |-> save_cache(c, key, result)]
        ELSE [result |-> EmptyDict, raised |-> FALSE, calls |-> 1, cache |-> c]

run_builder(url, reply, c) == run_model("builder", url, reply, c)

run_skeptic(url, reply, c) == run_model("skeptic", url, reply, c)

(* Pure specification: the same scoring call (one role, one article, one   *)
(* prompt) made twice in sequence on an empty cache; the endpoint answers  *)
(* first and second, when it is asked.                                     *)

Roles == {"builder", "skeptic", "evidence_upgrade"}

OutputsOf(role) ==
    IF role = "builder" THEN BuilderOutputs
    ELSE IF role = "skeptic" THEN SkepticOutputs
    ELSE EvidenceOutputs

InitCache ==
    /\ StoreInit
    /\ \E role \in Roles :
           fn_in \in [role : {role}, url : Urls,
                      first : Replies(OutputsOf(role)), second : Replies(OutputsOf(role))]
    /\ fn_out = <<>>

ApplyRunModel ==
    /\ Len(fn_out) < 2
    /\ LET reply == IF fn_out = <<>> THEN fn_in.first ELSE fn_in.second
           r == run_model(fn_in.role, fn_in.url, reply, cache)
       IN  /\ fn_out' = Append(fn_out, [result |-> r.result, raised |-> r.raised,
                                        calls |-> r.calls])
           /\ cache' = r.cache
    /\ UNCHANGED <<triage_run, run_loop, model_vote, triage_result, issue, papers,
                   selected, selecting, txn, ret, fn_in>>

NextCache == ApplyRunModel

SpecCache == InitCache /\ [][NextCache]_vars

Vote(run_id, url, role, model_name, output) ==
    [run_id |-> run_id, article_url |-> url, role |-> role,
     model_name |-> model_name, json_output |-> output]

(* variant of InsertVotes that keeps one vote per (article, role):         *)
(* VotesAppendOnly must tell it from InsertVotes                           *)
ReplaceVotes(table, votes) ==
    { v \in table : ~\E w \in votes : w.article_url = v.article_url /\ w.role = v.role }
    \cup votes

(* INSERT INTO model_vote: the key is the autoincrement id *)
InsertVotes(table, votes) == table \cup votes

(* the row triage_article inserts: the columns it does not name take the   *)
(* schema's defaults                                                       *)
TriageRow(run_id, url, merged, route) ==
    [run_id |-> run_id, article_url |-> url, discipline |-> DisciplineOf(url),
     score_s |-> Get(merged, "S", 0), score_e |-> Get(merged, "E", 0),
     score_t |-> Get(merged, "T", 0), score_m |-> Get(merged, "M", 0),
     score_h |-> Get(merged, "H", 0),
     route |-> route[1], frontier_flag |-> IF route[2] THEN 1 ELSE 0,
     tldr |-> Get(merged, "tldr", ""),
     pivot_figure_prompt |-> Get(merged, "pivot_figure", ""),
     course_hooks_json |-> Get(merged, "course_hooks", <<>>),
     fulltext_ok |-> 0, fulltext_source |-> NULL, access_state |-> "unknown",
     status |-> "ok", error_msg |-> NULL]

(* INSERT OR REPLACE on the primary key (run_id, article_url) *)
InsertOrReplace(table, row) ==
    { x \in table : ~(x.run_id = row.run_id /\ x.article_url = row.article_url) }
    \cup {row}

TriageRet(run_id, url, status, error_msg, builder, skeptic, route) ==
    [op |-> "triage_article", run_id |-> run_id, url |-> url, status |-> status,
     error_msg |-> error_msg, route |-> route,
     builder_calls |-> builder.calls, builder_ok |-> Truthy(builder.result),
     skeptic_calls |-> skeptic.calls, skeptic_ok |-> Truthy(skeptic.result)]

NotCalled == [result |-> EmptyDict, raised |-> FALSE, calls |-> 0, cache |-> {}]

(* One iteration of run_triage's loop.  An exception of call_ollama is     *)
(* caught nowhere: it ends the batch, and the connection's open            *)
(* transaction (the builder vote) is never committed.                      *)
triage_article(run_id, url, builder_reply, skeptic_reply) ==
    LET b == run_builder(url, builder_reply, cache)
        s == run_skeptic(url, skeptic_reply, b.cache)
        skeptic_result == IF Truthy(s.result) THEN s.result ELSE b.result
        merged == merge_scores(b.result, skeptic_result)
        route == compute_route(merged)
        looped == [run_loop EXCEPT ![run_id].done = @ \cup {url}]
        aborted == [run_loop EXCEPT ![run_id] = [pc |-> "closed", done |-> {}]]
    IN  /\ ret = NoRet
        /\ run_loop[run_id].pc = "loop"
        /\ url \notin run_loop[run_id].done
        /\ Cardinality(triage_result) < MaxResults
        /\ IF b.raised
           THEN /\ run_loop' = aborted
                /\ cache' = b.cache
                /\ ret' = TriageRet(run_id, url, "exception", NULL, b, NotCalled, NULL)
                /\ UNCHANGED <<model_vote, triage_result>>
           ELSE IF ~Truthy(b.result)
           THEN /\ run_loop' = looped
                /\ cache' = b.cache
                /\ ret' = TriageRet(run_id, url, "error", "builder failed", b,
                                    NotCalled, NULL)
                /\ UNCHANGED <<model_vote, triage_result>>
           ELSE IF s.raised
           THEN /\ run_loop' = aborted
                /\ cache' = s.cache
                /\ ret' = TriageRet(run_id, url, "exception", NULL, b, s, NULL)
                /\ UNCHANGED <<model_vote, triage_result>>
           ELSE /\ run_loop' = looped
                /\ cache' = s.cache
                /\ model_vote' = InsertVotes(model_vote,
                      { Vote(run_id, url, "builder", MODEL_BUILDER, b.result),
                        Vote(run_id, url, "skeptic", MODEL_SKEPTIC, skeptic_result) })
                /\ triage_result' =
                      InsertOrReplace(triage_result, TriageRow(run_id, url, merged, route))
                /\ ret' = TriageRet(run_id, url, "ok", NULL, b, s, route[1])
        /\ UNCHANGED <<triage_run, issue, papers, selected, selecting, txn,
                       fn_in, fn_out>>

(* triage_article statement by statement, for a process that can be       *)
(* stopped between any two.  The connection is opened with sqlite3's       *)
(* default transaction control: the first INSERT opens a transaction and   *)
(* the rows reach the database file at conn.commit().                      *)

(* variant of execute in autocommit mode: TriageAtomic must tell it from   *)
(* execute                                                                 *)
execute_autocommit(table, pending, rows) ==
    [table |-> table \cup rows, pending |-> pending]

(* conn.execute of an INSERT: the table of the file and the rows of the    *)
(* open transaction after it                                               *)
execute(table, pending, rows) ==
    [table |-> table, pending |-> pending \cup rows]

(* run_builder, the early return and the INSERT of the builder vote *)
triage_builder(run_id, url, builder_reply) ==
    LET b == run_builder(url, builder_reply, cache)
        e == execute(model_vote, {}, {Vote(run_id, url, "builder", MODEL_BUILDER, b.result)})
    IN  /\ ret = NoRet
        /\ txn.pc = "idle"
        /\ run_loop[run_id].pc = "loop"
        /\ url \notin run_loop[run_id].done
        /\ cache' = b.cache
        /\ IF b.raised
           THEN /\ run_loop' = [run_loop EXCEPT ![run_id] = [pc |-> "closed", done |-> {}]]
                /\ UNCHANGED <<model_vote, txn>>
           ELSE IF ~Truthy(b.result)
           THEN /\ run_loop' = [run_loop EXCEPT ![run_id].done = @ \cup {url}]
                /\ UNCHANGED <<model_vote, txn>>
           ELSE /\ model_vote' = e.table
                /\ txn' = [pc |-> "builder voted", run_id |-> run_id, url |-> url,
                           builder_result |-> b.result, votes |-> e.pending, rows |-> {}]
                /\ UNCHANGED run_loop
        /\ UNCHANGED <<triage_run, triage_result, issue, papers, selected, selecting,
                       ret, fn_in, fn_out>>

(* run_skeptic, the fallback, the INSERT of the skeptic vote, merge, route *)
(* and the INSERT OR REPLACE of the result: no call that can wait between  *)
(* them                                                                    *)
triage_skeptic(skeptic_reply) ==
    LET s == run_skeptic(txn.url, skeptic_reply, cache)
        skeptic_result == IF Truthy(s.result) THEN s.result ELSE txn.builder_result
        merged == merge_scores(txn.builder_result, skeptic_result)
        route == compute_route(merged)
        e == execute(model_vote, txn.votes,
                     {Vote(txn.run_id, txn.url, "skeptic", MODEL_SKEPTIC, skeptic_result)})
    IN  /\ ret = NoRet
        /\ txn.pc = "builder voted"
        /\ cache' = s.cache
        /\ IF s.raised
           THEN /\ run_loop' = [run_loop EXCEPT ![txn.run_id] = [pc |-> "closed", done |-> {}]]
                /\ txn' = NoTxn
                /\ UNCHANGED model_vote
           ELSE /\ model_vote' = e.table
                /\ txn' = [txn EXCEPT !.pc = "written", !.votes = e.pending,
                                      !.rows = {TriageRow(txn.run_id, txn.url, merged, route)}]
                /\ UNCHANGED run_loop
        /\ UNCHANGED <<triage_run, triage_result, issue, papers, selected, selecting,
                       ret, fn_in, fn_out>>

RECURSIVE InsertOrReplaceAll(_, _)
InsertOrReplaceAll(table, rows) ==
    IF rows = {} THEN table
    ELSE LET row == CHOOSE r \in rows : TRUE
         IN  InsertOrReplaceAll(InsertOrReplace(table, row), rows \ {row})

(* conn.commit() and the return *)
triage_commit ==
    /\ ret = NoRet
    /\ txn.pc = "written"
    /\ model_vote' = InsertVotes(model_vote, txn.votes)
    /\ triage_result' = InsertOrReplaceAll(triage_result, txn.rows)
    /\ run_loop' = [run_loop EXCEPT ![txn.run_id].done = @ \cup {txn.url}]
    /\ txn' = NoTxn
    /\ UNCHANGED <<triage_run, issue, cache, papers, selected, selecting,
                   ret, fn_in, fn_out>>

(* the process is stopped (a signal, a crash): what its connection has not *)
(* committed is rolled back, the loop is over                              *)
triage_interrupt(run_id) ==
    /\ ret = NoRet
    /\ run_loop[run_id].pc = "loop"
    /\ txn.pc = "idle" \/ txn.run_id = run_id
    /\ run_loop' = [run_loop EXCEPT ![run_id] = [pc |-> "closed", done |-> {}]]
    /\ txn' = NoTxn
    /\ UNCHANGED <<triage_run, model_vote, triage_result, issue, cache, papers,
                   selected, selecting, ret, fn_in, fn_out>>

(* run_triage up to its loop: a new run row, and the articles read from    *)
(* the archive.  replaced are the articles add_to_archive has replaced     *)
(* since the last run read them.  The batch is any part of the archive     *)
(* (discipline filter, limit); the scripts run one at a time, so a run     *)
(* starts when the runs before it are over.                                *)
run_triage(week, replaced) ==
    \E run_id \in Runs :
        /\ ret = NoRet
        /\ run_loop[run_id].pc = "none"
        /\ \A r \in Runs : r < run_id => run_loop[r].pc = "closed"
        /\ triage_run' = triage_run \cup {[run_id |-> run_id, week_of |-> week]}
        /\ run_loop' = [run_loop EXCEPT ![run_id].pc = "loop"]
        /\ cache' = add_to_archive(cache, replaced)
        /\ UNCHANGED <<model_vote, triage_result, issue, papers, ret,
                       selected, selecting, txn, fn_in, fn_out>>

(* the loop is over: conn.close() and the summary *)
end_triage(run_id) ==
    /\ ret = NoRet
    /\ run_loop[run_id].pc = "loop"
    /\ run_loop' = [run_loop EXCEPT ![run_id] = [pc |-> "closed", done |-> {}]]
    /\ UNCHANGED <<triage_run, model_vote, triage_result, issue, cache, papers,
                   ret, selected, selecting, txn, fn_in, fn_out>>

-----------------------------------------------------------------------------
(* SQL: ORDER BY ... LIMIT n.  Rows that tie on the ordering keys come in  *)
(* an order sqlite does not fix: the result is any set of                  *)
(* min(n, |rows|) rows that no left-out row sorts strictly before.         *)

Min(a, b) == IF a <= b THEN a ELSE b

(* the ORDER BY clauses of the scripts' queries *)
BeforeST(a, b) ==
    \/ a.score_s > b.score_s
    \/ a.score_s = b.score_s /\ a.score_t > b.score_t

(* variant of BeforeET that orders by score_t before score_e:             *)
(* IndepthDigestChosen must tell it from BeforeET                          *)
BeforeTE(a, b) ==
    \/ a.score_t > b.score_t
    \/ a.score_t = b.score_t /\ a.score_e > b.score_e

BeforeET(a, b) ==
    \/ a.score_e > b.score_e
    \/ a.score_e = b.score_e /\ a.score_t > b.score_t

AccessOrder(x) == IF x.access_state = "oa_pdf_found" THEN 0 ELSE 1

(* variant of BeforeBlurb without the CASE on access_state: BlurbChosen    *)
(* must tell it from BeforeBlurb                                           *)
BeforeBlurbScoresOnly(a, b) == BeforeST(a, b)

BeforeBlurb(a, b) ==
    \/ AccessOrder(a) < AccessOrder(b)
    \/ AccessOrder(a) = AccessOrder(b) /\ BeforeST(a, b)

Before(order, a, b) ==
    CASE order = "score_s, score_t" -> BeforeST(a, b)
      [] order = "score_e, score_t" -> BeforeET(a, b)
      [] order = "access_state, score_s, score_t" -> BeforeBlurb(a, b)
      [] order = "" -> FALSE

TopN(rows, n, order) ==
    { X \in SUBSET rows :
        /\ Cardinality(X) = Min(n, Cardinality(rows))
        /\ \A x \in X, y \in rows \ X : ~Before(order, y, x) }

UrlsOf(rows) == { x.article_url : x \in rows }

(* the rows of X a loop over the sorted result can meet first for each url *)
FirstByUrl(X, order) ==
    { f \in [UrlsOf(X) -> X] :
        \A u \in UrlsOf(X) :
            /\ f[u].article_url = u
            /\ \A y \in X : y.article_url = u => ~Before(order, y, f[u]) }

-----------------------------------------------------------------------------
(* stage0_fulltext_fetch.py *)

FetchCandidates ==
    { x \in triage_result :
        /\ x.route \in {"blurb", "digest"}
        /\ x.frontier_flag = 1
        /\ x.status = "ok"
        /\ x.fulltext_ok = 0
        /\ x.fulltext_source = NULL }

(* fetch_fulltext: (path, source), (None, source) or an exception.  A pdf  *)
(* already on disk is returned as it is.  The sources are one of each kind *)
(* the caller tells apart.                                                 *)
fetch_fulltext(url) ==
    IF url \in papers
    THEN { [kind |-> "path", source |-> "cached"] }
    ELSE { [kind |-> "path", source |-> "unpaywall"],
           [kind |-> "none", source |-> "unavailable"],
           [kind |-> "none", source |-> "unpaywall_download_failed"],
           [kind |-> "raise", source |-> NULL] }

DownloadFailed == {"unpaywall_download_failed", "pmc_download_failed"}

AccessStateOfFailure(source) ==
    IF source \in {"unavailable", "no_doi"} THEN "paywalled"
    ELSE IF source \in DownloadFailed THEN "oa_pdf_found_but_failed"
    ELSE "abstract_only"

(* UPDATE triage_result ... WHERE article_url = ? *)
FetchUpdate(x, outcome) ==
    IF outcome.kind = "path"
    THEN [x EXCEPT !.fulltext_ok = 1, !.fulltext_source = outcome.source,
                   !.access_state = "oa_pdf_found"]
    ELSE IF outcome.kind = "none"
    THEN [x EXCEPT !.fulltext_source = outcome.source,
                   !.access_state = AccessStateOfFailure(outcome.source)]
    ELSE x

(* The whole batch.  Each article's update is by url, so for a url met     *)
(* several times (one row per run) the last outcome stands.                *)
run_fulltext_fetch(limit, dry_run) ==
    /\ ret = NoRet
    /\ IF dry_run
       THEN UNCHANGED <<triage_result, papers>>
       ELSE \E X \in TopN(FetchCandidates, limit, "score_s, score_t") :
            \E outcome \in [UrlsOf(X) -> UNION { fetch_fulltext(u) : u \in UrlsOf(X) }] :
                /\ \A u \in UrlsOf(X) : outcome[u] \in fetch_fulltext(u)
                /\ triage_result' =
                     { IF x.article_url \in UrlsOf(X)
                       THEN FetchUpdate(x, outcome[x.article_url]) ELSE x
                       : x \in triage_result }
                /\ papers' = papers \cup { u \in UrlsOf(X) : outcome[u].kind = "path" }
    /\ UNCHANGED <<triage_run, run_loop, model_vote, issue, cache, ret,
                   selected, selecting, txn, fn_in, fn_out>>

-----------------------------------------------------------------------------
(* triage_evidence_upgrade.py *)

upgrade_compute_route(S, E, T, M, H) ==
    IF T <= 1 \/ (H >= 4 /\ E <= 3) THEN <<"reject", FALSE>>
    ELSE IF E >= 4 /\ T >= 4 /\ (S >= 4 \/ M >= 4) /\ H <= 2 THEN <<"indepth", FALSE>>
    ELSE IF E >= 3 /\ T >= 3 /\ (S >= 3 \/ M >= 3) /\ H <= 3 THEN <<"digest", FALSE>>
    ELSE IF T >= 2 /\ (S >= 3 \/ M >= 3) THEN <<"blurb", E <= 2>>
    ELSE <<"reject", FALSE>>

UpgradeCandidates ==
    { x \in triage_result :
        /\ x.fulltext_ok = 1
        /\ x.access_state = "oa_pdf_found"
        /\ x.score_e <= 2
        /\ x.status = "ok" }

(* UPDATE triage_result SET score_e, score_h, route, frontier_flag         *)
(* WHERE article_url = ?                                                   *)
UpgradeMatches(x, article_url) == x.article_url = article_url

(* variant of upgrade_evidence whose UPDATE leaves frontier_flag out:      *)
(* FrontierOnlyBlurb must tell it from upgrade_evidence                    *)
upgrade_evidence_keep_flag(table, cand, result) ==
    LET new_E == Get(result, "E", cand.score_e)
        new_H == Get(result, "H", cand.score_h)
        route == upgrade_compute_route(cand.score_s, new_E, cand.score_t,
                                       cand.score_m, new_H)
    IN  { IF UpgradeMatches(x, cand.article_url)
          THEN [x EXCEPT !.score_e = new_E, !.score_h = new_H, !.route = route[1]]
          ELSE x
          : x \in table }

(* upgrade_evidence for the candidate row cand, on the table as it is now: *)
(* the scores are those the batch read before its loop                     *)
upgrade_evidence(table, cand, result) ==
    LET new_E == Get(result, "E", cand.score_e)
        new_H == Get(result, "H", cand.score_h)
        route == upgrade_compute_route(cand.score_s, new_E, cand.score_t,
                                       cand.score_m, new_H)
    IN  { IF UpgradeMatches(x, cand.article_url)
          THEN [x EXCEPT !.score_e = new_E, !.score_h = new_H, !.route = route[1],
                         !.frontier_flag = IF route[2] THEN 1 ELSE 0]
          ELSE x
          : x \in table }

(* the endpoint is called only for a prompt the cache does not hold *)
NoReply == [kind |-> "none", json |-> EmptyDict]

Called(role, url, outputs) ==
    IF Truthy(load_cache(cache, cache_key(role, url))) THEN {NoReply}
    ELSE Replies(outputs)

RECURSIVE UpgradeAll(_, _, _, _)
(* the loop over the urls of the batch: last[u] is the last row of url u   *)
(* whose rescoring succeeded, replies[u] the endpoint's answer for u       *)
UpgradeAll(urls, last, replies, st) ==
    IF urls = {} THEN st
    ELSE LET u == CHOOSE v \in urls : TRUE
             r == run_model("evidence_upgrade", u, replies[u], st.cache)
             next == IF r.raised \/ ~Truthy(r.result) THEN st
                     ELSE [table |-> upgrade_evidence(st.table, last[u], r.result),
                           cache |-> r.cache]
         IN  UpgradeAll(urls \ {u}, last, replies, next)

(* what the batch reports for the articles of X: upgrade_evidence returns  *)
(* status ok or status error, and an exception counts as an error          *)
upgrade_outcomes(X, replies) ==
    [u \in UrlsOf(X) |->
        LET r == run_model("evidence_upgrade", u, replies[u], cache)
        IN  IF r.raised \/ ~Truthy(r.result) THEN "error" ELSE "ok"]

(* the loop of the batch over the fetched rows X *)
upgrade_loop(X, last, replies) ==
    LET st == UpgradeAll(UrlsOf(X), last, replies,
                         [table |-> triage_result, cache |-> cache])
    IN  /\ triage_result' = st.table
        /\ cache' = st.cache

upgrade_batch(X, last, replies) ==
    /\ \A u \in UrlsOf(X) :
          replies[u] \in Called("evidence_upgrade", u, EvidenceOutputs)
    /\ upgrade_loop(X, last, replies)

(* The whole batch, the endpoint answering with the objects of outputs: no *)
(* ORDER BY, so any min(limit, n) candidates.  The update is by url, so    *)
(* for a url met several times the last succeeding row stands; an          *)
(* exception is caught per article.                                        *)
run_evidence_upgrade_replies(outputs, limit, dry_run) ==
    /\ ret = NoRet
    /\ IF dry_run
       THEN UNCHANGED <<triage_result, cache>>
       ELSE \E X \in TopN(UpgradeCandidates, limit, "") :
            \E last \in FirstByUrl(X, "") :
            \E replies \in [UrlsOf(X) -> Replies(outputs)] :
                /\ \A u \in UrlsOf(X) :
                      replies[u] \in Called("evidence_upgrade", u, outputs)
                /\ upgrade_loop(X, last, replies)
    /\ UNCHANGED <<triage_run, run_loop, model_vote, issue, papers, ret,
                   selected, selecting, txn, fn_in, fn_out>>

run_evidence_upgrade(limit, dry_run) ==
    run_evidence_upgrade_replies(EvidenceOutputs, limit, dry_run)

-----------------------------------------------------------------------------
(* select_weekly_issue.py *)

DigestMax == 1
BlurbMax == 1

(* digest_max is 7 and blurb_max 30 in the source.  LIMIT is the same      *)
(* clause for every value, and the model takes them at DigestMax and       *)
(* BlurbMax so that its few articles can exceed them.                      *)
(* variant of QUOTAS with every LIMIT one row too long: QuotaInvariant     *)
(* must tell it from QUOTAS                                                *)
QUOTAS_plus_one == [indepth |-> 2, digest_max |-> DigestMax + 1, blurb_max |-> BlurbMax + 1]

QUOTAS == [indepth |-> 1, digest_max |-> DigestMax, blurb_max |-> BlurbMax]

(* variant of compute_rank_score that adds the hype risk instead of        *)
(* subtracting it: RankScoreRecorded must tell it from compute_rank_score  *)
compute_rank_score_plus_H(row) ==
    55 * row.score_e + 45 * row.score_t + 60 * row.score_h
        + 25 * row.score_s + 15 * row.score_m

(* rank score in hundredths *)
compute_rank_score(row) ==
    55 * row.score_e + 45 * row.score_t - 60 * row.score_h
        + 25 * row.score_s + 15 * row.score_m

IssueRows(week_of, discipline) ==
    { i \in issue : i.week_of = week_of /\ i.discipline = discipline }

(* variant of SlotAccess without the access_state condition:              *)
(* AccessGating must tell it from SlotAccess                               *)
SlotAccessAny(slot) ==
    {"unknown", "oa_pdf_found", "abstract_only", "paywalled", "oa_pdf_found_but_failed"}

SlotAccess(slot) ==
    IF slot = "blurb" THEN {"oa_pdf_found", "abstract_only"} ELSE {"oa_pdf_found"}

SelectCandidates(discipline, slot) ==
    { x \in triage_result :
        /\ x.discipline = discipline
        /\ x.route = slot
        /\ x.access_state \in SlotAccess(slot)
        /\ x.status = "ok" }

IssueRow(week_of, discipline, row, slot) ==
    [week_of |-> week_of, discipline |-> discipline, article_url |-> row.article_url,
     slot |-> slot, rank_score |-> compute_rank_score(row),
     access_state |-> row.access_state]

(* variant of InsertOrIgnore that inserts every row: OneSlotPerArticle     *)
(* must tell it from InsertOrIgnore                                        *)
InsertAll(table, week_of, discipline, first, slot) ==
    table \cup { IssueRow(week_of, discipline, first[u], slot) : u \in DOMAIN first }

(* INSERT OR IGNORE on UNIQUE(week_of, discipline, article_url), for the   *)
(* rows of one loop: first[u] is the row of url u the loop meets first     *)
InsertOrIgnore(table, week_of, discipline, first, slot) ==
    table \cup
    { IssueRow(week_of, discipline, first[u], slot) :
        u \in { v \in DOMAIN first :
                  ~\E i \in table : /\ i.week_of = week_of
                                    /\ i.discipline = discipline
                                    /\ i.article_url = v } }

(* variant of AlreadySelected without the existence check:                *)
(* SelectionIdempotent must tell it from AlreadySelected                   *)
NeverSelected(week_of, discipline) == FALSE

AlreadySelected(week_of, discipline) == IssueRows(week_of, discipline) # {}

(* the three loops of INSERT OR IGNORE, over the rows the loops meet first *)
select_loops(week_of, discipline, fi, fd, fb) ==
    LET t1 == InsertOrIgnore(issue, week_of, discipline, fi, "indepth")
        t2 == InsertOrIgnore(t1, week_of, discipline, fd, "digest")
    IN  InsertOrIgnore(t2, week_of, discipline, fb, "blurb")

select_for_discipline(week_of, discipline, dry_run) ==
    /\ ret = NoRet
    /\ IF AlreadySelected(week_of, discipline)
       THEN /\ ret' = [op |-> "select_for_discipline", week_of |-> week_of,
                       discipline |-> discipline, dry_run |-> dry_run,
                       indepth |-> 0, digest |-> 0, blurb |-> 0, skipped |-> TRUE]
            /\ UNCHANGED <<issue, selected>>
       ELSE
       \E Xi \in TopN(SelectCandidates(discipline, "indepth"), QUOTAS.indepth, "score_e, score_t") :
       \E Xd \in TopN(SelectCandidates(discipline, "digest"), QUOTAS.digest_max, "score_e, score_t") :
       \E Xb \in TopN(SelectCandidates(discipline, "blurb"), QUOTAS.blurb_max,
                     "access_state, score_s, score_t") :
       \E fi \in FirstByUrl(Xi, "score_e, score_t") :
       \E fd \in FirstByUrl(Xd, "score_e, score_t") :
       \E fb \in FirstByUrl(Xb, "access_state, score_s, score_t") :
           LET t3 == select_loops(week_of, discipline, fi, fd, fb)
           IN  /\ issue' = IF dry_run THEN issue ELSE t3
               /\ selected' = IF dry_run THEN selected
                               ELSE IF t3 = issue
                               THEN selected \cup {<<week_of, discipline>>}
                               ELSE selected \ {<<week_of, discipline>>}
               /\ ret' = [op |-> "select_for_discipline", week_of |-> week_of,
                          discipline |-> discipline, dry_run |-> dry_run,
                          indepth |-> Cardinality(Xi), digest |-> Cardinality(Xd),
                          blurb |-> Cardinality(Xb), skipped |-> FALSE]
    /\ UNCHANGED <<triage_run, run_loop, model_vote, triage_result,
                   cache, papers, selecting, txn, fn_in, fn_out>>

(* every issue table a committed, not skipped select_for_discipline can     *)
(* leave from the current state: one per result sqlite may give the three  *)
(* SELECT ... ORDER BY ... LIMIT                                           *)
SelectOutcomes(week_of, discipline) ==
    UNION { UNION { UNION {
        { select_loops(week_of, discipline, fi, fd, fb) :
            fi \in FirstByUrl(Xi, "score_e, score_t"),
            fd \in FirstByUrl(Xd, "score_e, score_t"),
            fb \in FirstByUrl(Xb, "access_state, score_s, score_t") } :
        Xb \in TopN(SelectCandidates(discipline, "blurb"), QUOTAS.blurb_max,
                    "access_state, score_s, score_t") } :
        Xd \in TopN(SelectCandidates(discipline, "digest"), QUOTAS.digest_max,
                    "score_e, score_t") } :
        Xi \in TopN(SelectCandidates(discipline, "indepth"), QUOTAS.indepth,
                    "score_e, score_t") }

(* select_for_discipline run by several processes at once, in two steps.   *)
(* select_check is its first statement, the SELECT COUNT and the           *)
(* return taken when rows exist.  select_write is the rest: the three      *)
(* SELECTs with their INSERT OR IGNORE loops and the commit, taken here at *)
(* one instant (one of the interleavings sqlite allows: the connection     *)
(* holds the write lock from its first INSERT to its commit).              *)
select_check(p, week_of, discipline) ==
    /\ ret = NoRet
    /\ selecting[p].pc = "idle"
    /\ selecting' = [selecting EXCEPT ![p] =
           [pc |-> IF AlreadySelected(week_of, discipline) THEN "skipped" ELSE "checked",
            week_of |-> week_of, discipline |-> discipline, wrote |-> {}]]
    /\ UNCHANGED <<triage_run, run_loop, model_vote, triage_result, issue, cache,
                   papers, selected, txn, ret, fn_in, fn_out>>

select_write(p) ==
    LET week_of == selecting[p].week_of
        discipline == selecting[p].discipline
    IN  /\ ret = NoRet
        /\ selecting[p].pc = "checked"
        /\ \E Xi \in TopN(SelectCandidates(discipline, "indepth"), QUOTAS.indepth,
                           "score_e, score_t") :
           \E Xd \in TopN(SelectCandidates(discipline, "digest"), QUOTAS.digest_max,
                           "score_e, score_t") :
           \E Xb \in TopN(SelectCandidates(discipline, "blurb"), QUOTAS.blurb_max,
                           "access_state, score_s, score_t") :
           \E fi \in FirstByUrl(Xi, "score_e, score_t") :
           \E fd \in FirstByUrl(Xd, "score_e, score_t") :
           \E fb \in FirstByUrl(Xb, "access_state, score_s, score_t") :
               LET t3 == select_loops(week_of, discipline, fi, fd, fb)
               IN  /\ issue' = t3
                   /\ selecting' = [selecting EXCEPT ![p].pc = "done",
                                                     ![p].wrote = t3 \ issue]
        /\ UNCHANGED <<triage_run, run_loop, model_vote, triage_result, cache,
                       papers, selected, txn, ret, fn_in, fn_out>>

(* the caller takes the returned value; the next operation starts after it *)
Return ==
    /\ ret # NoRet
    /\ ret' = NoRet
    /\ UNCHANGED <<triage_run, run_loop, model_vote, triage_result, issue,
                   cache, papers, selected, selecting, txn, fn_in, fn_out>>

-----------------------------------------------------------------------------
(* The scripts run one after another, each as one step *)

Init ==
    /\ StoreInit
    /\ fn_in = EmptyDict
    /\ fn_out = <<>>

Next ==
    \/ \E week \in Weeks, replaced \in SUBSET Urls : run_triage(week, replaced)
    \/ \E run_id \in Runs : end_triage(run_id)
    \/ \E run_id \in Runs, url \in Urls :
       \E builder_reply \in Called("builder", url, BuilderOutputs),
          skeptic_reply \in Called("skeptic", url, SkepticOutputs) :
            triage_article(run_id, url, builder_reply, skeptic_reply)
    \/ \E limit \in Limits, dry_run \in BOOLEAN : run_fulltext_fetch(limit, dry_run)
    \/ \E limit \in Limits, dry_run \in BOOLEAN : run_evidence_upgrade(limit, dry_run)
    \/ \E week \in Weeks, discipline \in Disciplines, dry_run \in BOOLEAN :
            select_for_discipline(week, discipline, dry_run)
    \/ Return

Spec == Init /\ [][Next]_vars

(* One triage run, full-text fetches and evidence upgrades, with selection *)
(* invocations running concurrently with them and with each other          *)
NextConcurrent ==
    \/ \E week \in Weeks : triage_run = {} /\ run_triage(week, {})
    \/ \E run_id \in Runs : end_triage(run_id)
    \/ \E run_id \in Runs, url \in Urls :
       \E builder_reply \in Called("builder", url, BuilderOutputs),
          skeptic_reply \in Called("skeptic", url, SkepticOutputs) :
            triage_article(run_id, url, builder_reply, skeptic_reply)
    \/ run_fulltext_fetch(MaxLimit, FALSE)
    \/ run_evidence_upgrade(MaxLimit, FALSE)
    \/ \E p \in Selectors, week \in Weeks, discipline \in Disciplines :
            select_check(p, week, discipline)
    \/ \E p \in Selectors : select_write(p)
    \/ Return

SpecConcurrent == Init /\ [][NextConcurrent]_vars

(* One triage run, full-text fetches and evidence upgrades, the endpoint   *)
(* answering with objects whose scores are out of range or missing         *)
NextUnchecked ==
    \/ \E week \in Weeks : triage_run = {} /\ run_triage(week, {})
    \/ \E run_id \in Runs : end_triage(run_id)
    \/ \E run_id \in Runs, url \in Urls :
       \E builder_reply \in Called("builder", url, UncheckedBuilderOutputs),
          skeptic_reply \in Called("skeptic", url, UncheckedSkepticOutputs) :
            triage_article(run_id, url, builder_reply, skeptic_reply)
    \/ run_fulltext_fetch(MaxLimit, FALSE)
    \/ run_evidence_upgrade_replies(UncheckedEvidenceOutputs, MaxLimit, FALSE)
    \/ Return

SpecUnchecked == Init /\ [][NextUnchecked]_vars

(* The pipeline over several periods: one triage run for some period,     *)
(* fetches and upgrades, and selection called for any period (the daily    *)
(* pipeline passes the day's date to triage and to selection)              *)
Periods == 1..(MaxWeeks + 1)

NextPeriods ==
    \/ \E week \in Periods : triage_run = {} /\ run_triage(week, {})
    \/ \E run_id \in Runs : end_triage(run_id)
    \/ \E run_id \in Runs, url \in Urls :
       \E builder_reply \in Called("builder", url, BuilderOutputs),
          skeptic_reply \in Called("skeptic", url, SkepticOutputs) :
            triage_article(run_id, url, builder_reply, skeptic_reply)
    \/ run_fulltext_fetch(MaxLimit, FALSE)
    \/ run_evidence_upgrade(MaxLimit, FALSE)
    \/ \E week \in Periods, discipline \in Disciplines :
            select_for_discipline(week, discipline, FALSE)
    \/ Return

SpecPeriods == Init /\ [][NextPeriods]_vars

(* Triage runs whose process can be stopped between any two statements of  *)
(* triage_article                                                          *)
NextAtomic ==
    \/ \E week \in Weeks, replaced \in SUBSET Urls : run_triage(week, replaced)
    \/ \E run_id \in Runs : txn.pc = "idle" /\ end_triage(run_id)
    \/ \E run_id \in Runs, url \in Urls :
       \E builder_reply \in Called("builder", url, BuilderOutputs) :
            triage_builder(run_id, url, builder_reply)
    \/ \E skeptic_reply \in Called("skeptic", txn.url, SkepticOutputs) :
            triage_skeptic(skeptic_reply)
    \/ triage_commit
    \/ \E run_id \in Runs : triage_interrupt(run_id)

SpecAtomic == Init /\ [][NextAtomic]_vars

-----------------------------------------------------------------------------
(* Selection as a function of the table it reads.  triage_result is a file *)
(* table: select_for_discipline takes whatever rows it holds.  The rows    *)
(* are as triage_article inserts them (route and frontier_flag from        *)
(* compute_route) with the access_state a fetch or another writer of the   *)
(* table has left; the issue table is empty.                               *)

(* score vectors of each route, two of each that the ORDER BY keys tell    *)
(* apart in opposite ways                                                  *)
SelectVectors ==
    { [S |-> 5, E |-> 5, T |-> 4, M |-> 5, H |-> 0],      \* indepth
      [S |-> 5, E |-> 4, T |-> 5, M |-> 5, H |-> 0],      \* indepth
      [S |-> 3, E |-> 4, T |-> 3, M |-> 0, H |-> 0],      \* digest
      [S |-> 3, E |-> 3, T |-> 4, M |-> 0, H |-> 1],      \* digest
      [S |-> 4, E |-> 1, T |-> 2, M |-> 0, H |-> 1],      \* blurb
      [S |-> 3, E |-> 1, T |-> 3, M |-> 0, H |-> 1] }     \* blurb

SelectAccess == {"unknown", "oa_pdf_found", "abstract_only"}

StoredRow(run_id, url, scores, access_state) ==
    [TriageRow(run_id, url, scores, compute_route(scores)) EXCEPT
        !.access_state = access_state,
        !.fulltext_ok = IF access_state = "oa_pdf_found" THEN 1 ELSE 0,
        !.fulltext_source = IF access_state = "unknown" THEN NULL ELSE "unpaywall"]

(* the primary keys of the tables with several rows: two articles in run   *)
(* 1, the first of them again in run 2                                     *)
SelectKeys == {<<1, 1>>, <<1, 2>>, <<2, 1>>}

SelectTables ==
    { {StoredRow(1, 1, scores, access_state)} :
        scores \in ScoreVectors, access_state \in {"oa_pdf_found", "abstract_only"} }
    \cup
    { { StoredRow(k[1], k[2], c[k].scores, c[k].access_state) : k \in keys } :
        keys \in SUBSET SelectKeys,
        c \in [SelectKeys -> [scores : SelectVectors, access_state : SelectAccess]] }

InitSelect ==
    /\ triage_run = { [run_id |-> r, week_of |-> w] : r \in Runs, w \in {1} }
    /\ run_loop = [r \in Runs |-> [pc |-> "closed", done |-> {}]]
    /\ model_vote = {}
    /\ triage_result \in SelectTables
    /\ issue = {}
    /\ cache = {}
    /\ papers = {}
    /\ selected = {}
    /\ selecting = [p \in Selectors |-> Idle]
    /\ txn = NoTxn
    /\ ret = NoRet
    /\ fn_in = EmptyDict
    /\ fn_out = <<>>

NextSelect ==
    \/ \E week \in Weeks, discipline \in Disciplines, dry_run \in BOOLEAN :
            select_for_discipline(week, discipline, dry_run)
    \/ Return

SpecSelect == InitSelect /\ [][NextSelect]_vars

-----------------------------------------------------------------------------
(* Properties of routing (checked under SpecRoute)                          *)

Vector(S, E, T, M, H) == [k \in ScoreKeys |->
    CASE k = "S" -> S [] k = "E" -> E [] k = "T" -> T [] k = "M" -> M [] k = "H" -> H]

(* the five rules as the specification lists them, each on its own *)
RuleHolds(i, v) ==
    CASE i = 1 -> v["T"] <= 1 \/ (v["H"] >= 4 /\ v["E"] <= 3)
      [] i = 2 -> v["E"] >= 4 /\ v["T"] >= 4 /\ (v["S"] >= 4 \/ v["M"] >= 4) /\ v["H"] <= 2
      [] i = 3 -> v["E"] >= 3 /\ v["T"] >= 3 /\ (v["S"] >= 3 \/ v["M"] >= 3) /\ v["H"] <= 3
      [] i = 4 -> v["T"] >= 2 /\ (v["S"] >= 3 \/ v["M"] >= 3)
      [] i = 5 -> TRUE

RuleRoute == <<"reject", "indepth", "digest", "blurb", "reject">>

FirstMatch(v) == CHOOSE i \in 1..5 : RuleHolds(i, v) /\ \A j \in 1..(i - 1) : ~RuleHolds(j, v)

Routed(v, route, frontier) == fn_in = v => fn_out[1] = <<route, frontier>>

(* C1: for every score vector of 0..5, compute_route returns the route of  *)
(* the first of the five rules that matches, with the frontier flag set    *)
(* iff that rule is the blurb rule and E <= 2; the route is one of reject, *)
(* blurb, digest, indepth; and the four fixtures route as listed.          *)
RouteFirstMatch ==
    fn_out # <<>> =>
        /\ fn_out[1][1] = RuleRoute[FirstMatch(fn_in)]
        /\ fn_out[1][2] = (FirstMatch(fn_in) = 4 /\ fn_in["E"] <= 2)
        /\ fn_out[1][1] \in {"reject", "blurb", "digest", "indepth"}
        /\ Routed(Vector(5, 5, 5, 5, 0), "indepth", FALSE)
        /\ fn_in = Vector(0, 0, 0, 0, 5) => fn_out[1][1] = "reject"
        /\ Routed(Vector(3, 1, 3, 0, 1), "blurb", TRUE)
        /\ fn_in = Vector(0, 0, 0, 0, 0) => fn_out[1][1] = "reject"

(* a vector both the indepth and the digest rule match has been routed *)
RouteFirstMatchWitness ==
    /\ fn_in = Vector(5, 5, 5, 5, 0)
    /\ RuleHolds(2, fn_in) /\ RuleHolds(3, fn_in)
    /\ fn_out = << <<"indepth", FALSE>> >>

-----------------------------------------------------------------------------
(* Properties of the merge (checked under SpecMerge)                        *)

(* C2: merge_scores takes S, T, M, tldr, pivot_figure and course_hooks     *)
(* from the builder; E and H from the skeptic, from the builder when the   *)
(* skeptic gives none; confidence from the skeptic, 0.5 when it gives      *)
(* none.  A builder scoring 5 throughout and a skeptic with E = 1, H = 1   *)
(* merge to E = 1, H = 1, S = T = M = 5.                                   *)
MergePrecedence ==
    fn_out # <<>> =>
        LET b == fn_in.builder
            s == fn_in.skeptic
            m == fn_out[1]
        IN  /\ \A k \in {"S", "T", "M", "tldr", "pivot_figure", "course_hooks"} :
                   k \in DOMAIN b => m[k] = b[k]
            /\ \A k \in {"S", "T", "M"} : k \notin DOMAIN b => m[k] = 0
            /\ \A k \in {"E", "H"} :
                   /\ k \in DOMAIN s => m[k] = s[k]
                   /\ (k \notin DOMAIN s /\ k \in DOMAIN b) => m[k] = b[k]
            /\ "confidence" \in DOMAIN s => m.confidence = s.confidence
            /\ "confidence" \notin DOMAIN s => m.confidence = ConfidenceDefault
            /\ ( /\ \A k \in ScoreKeys : k \in DOMAIN b /\ b[k] = 5
                 /\ DOMAIN s = {"E", "H"} /\ s["E"] = 1 /\ s["H"] = 1 )
               => ( m.E = 1 /\ m.H = 1 /\ m.S = 5 /\ m.T = 5 /\ m.M = 5 )

(* the fixture: builder 5 throughout, skeptic {E: 1, H: 1}, merged *)
MergePrecedenceWitness ==
    /\ fn_out # <<>>
    /\ \A k \in ScoreKeys : k \in DOMAIN fn_in.builder /\ fn_in.builder[k] = 5
    /\ fn_in.skeptic = [k \in {"E", "H"} |-> 1]
    /\ fn_out[1].E = 1 /\ fn_out[1].S = 5

-----------------------------------------------------------------------------
(* Properties of the store (checked under Spec)                             *)

SlotRows(week_of, discipline, slot) ==
    { i \in IssueRows(week_of, discipline) : i.slot = slot }

(* this step is a call of select_for_discipline for the pair *)
SelectCall(week_of, discipline) ==
    /\ ret = NoRet
    /\ ret'.op = "select_for_discipline"
    /\ ret'.week_of = week_of
    /\ ret'.discipline = discipline

(* a committed, not skipped call of select_for_discipline has just returned *)
Selected ==
    /\ ret.op = "select_for_discipline"
    /\ ~ret.skipped
    /\ ~ret.dry_run

(* C3 as amended: once issue rows exist for a (week_of, discipline) pair,  *)
(* no step changes the pair's rows, every call of select_for_discipline    *)
(* for the pair reports skipped with zero counts, and the table holds no   *)
(* two rows for one (week_of, discipline, article_url).  So a second call  *)
(* leaves exactly the rows of a first call that wrote at least one row,    *)
(* also when the triage results changed in between.                        *)
SelectionIdempotent ==
    [][\A week_of \in Weeks, discipline \in Disciplines :
          IssueRows(week_of, discipline) # {} =>
              /\ IssueRows(week_of, discipline)' = IssueRows(week_of, discipline)
              /\ SelectCall(week_of, discipline) =>
                     /\ ret'.skipped
                     /\ ret'.indepth = 0 /\ ret'.digest = 0 /\ ret'.blurb = 0
              /\ \A i, j \in issue' :
                     ( /\ i.week_of = j.week_of /\ i.discipline = j.discipline
                       /\ i.article_url = j.article_url ) => i = j]_vars

(* a call was skipped although a digest candidate has appeared that the    *)
(* pair's rows, which hold no digest, do not have                          *)
SelectionIdempotentWitness ==
    /\ ret.op = "select_for_discipline"
    /\ ret.skipped
    /\ IssueRows(ret.week_of, ret.discipline) # {}
    /\ SlotRows(ret.week_of, ret.discipline, "digest") = {}
    /\ \E x \in SelectCandidates(ret.discipline, "digest") :
           x.article_url \notin UrlsOf(IssueRows(ret.week_of, ret.discipline))

(* C3 as stated: once select_for_discipline has run for a pair, committed, *)
(* whether it wrote rows or not, no later step changes the pair's rows.    *)
SelectionTwiceSameRows ==
    [][\A week_of \in Weeks, discipline \in Disciplines :
          ( IssueRows(week_of, discipline) # {} \/ <<week_of, discipline>> \in selected )
              => IssueRows(week_of, discipline)' = IssueRows(week_of, discipline)]_vars

(* C4: for each (week_of, discipline) the issue table holds at most 1 row  *)
(* with slot indepth, at most digest_max rows with slot digest and at most *)
(* blurb_max rows with slot blurb.                                         *)
QuotaInvariant ==
    \A week_of \in Weeks, discipline \in Disciplines :
        /\ Cardinality(SlotRows(week_of, discipline, "indepth")) <= 1
        /\ Cardinality(SlotRows(week_of, discipline, "digest")) <= DigestMax
        /\ Cardinality(SlotRows(week_of, discipline, "blurb")) <= BlurbMax

(* a selection has been written from more blurb candidates than blurb_max *)
QuotaInvariantWitness ==
    /\ Selected
    /\ Cardinality(UrlsOf(SelectCandidates(ret.discipline, "blurb"))) > BlurbMax
    /\ Cardinality(SlotRows(ret.week_of, ret.discipline, "blurb")) = BlurbMax

(* C5: every issue row whose slot is indepth or digest has                 *)
(* access_state = oa_pdf_found.                                            *)
AccessGating ==
    \A i \in issue : i.slot \in {"indepth", "digest"} => i.access_state = "oa_pdf_found"

(* a selection wrote a digest row and left out an article routed indepth   *)
(* or digest whose access_state is not oa_pdf_found                        *)
AccessGatingWitness ==
    /\ Selected
    /\ SlotRows(ret.week_of, ret.discipline, "digest") # {}
    /\ \E x \in triage_result :
           /\ x.discipline = ret.discipline
           /\ x.route \in {"indepth", "digest"}
           /\ x.access_state # "oa_pdf_found"
           /\ x.article_url \notin UrlsOf(IssueRows(ret.week_of, ret.discipline))

(* C6 as stated: an evidence-upgrade pass leaves every triage_result row   *)
(* whose access_state is not oa_pdf_found as it is.                        *)
UpgradeGated ==
    [][\A limit \in Limits, dry_run \in BOOLEAN :
          run_evidence_upgrade(limit, dry_run) =>
              \A x \in triage_result :
                  x.access_state # "oa_pdf_found" => x \in triage_result']_vars

RowScores(x) ==
    [S |-> x.score_s, E |-> x.score_e, T |-> x.score_t, M |-> x.score_m, H |-> x.score_h]

(* C7 as stated: every triage_result row with status ok has the route and  *)
(* the frontier_flag that compute_route gives for the row's own scores.    *)
RouteDerivable ==
    \A x \in triage_result :
        x.status = "ok" => <<x.route, x.frontier_flag = 1>> = compute_route(RowScores(x))

(* C8: every triage_result row with frontier_flag = 1 has route = blurb    *)
(* and score_e <= 2.                                                       *)
FrontierOnlyBlurb ==
    \A x \in triage_result : x.frontier_flag = 1 => x.route = "blurb" /\ x.score_e <= 2

(* a row an evidence upgrade has rescored to E = 2 and left on the         *)
(* frontier, beside a row an upgrade has taken off it                      *)
FrontierOnlyBlurbWitness ==
    /\ \E x \in triage_result : x.frontier_flag = 1 /\ x.score_e = 2 /\ x.fulltext_ok = 1
    /\ \E x \in triage_result : x.frontier_flag = 0 /\ x.score_e = 4 /\ x.fulltext_ok = 1

(* C9 as stated: a builder whose first call fails or cannot be parsed is   *)
(* called exactly once more, so an article whose triage ended after one    *)
(* builder call had a builder result from it, and none ends after three.   *)
BuilderRetriedOnce ==
    ret.op = "triage_article" =>
        /\ ret.builder_calls = 1 => ret.builder_ok
        /\ ret.builder_calls <= 2

(* C10 as stated: when the builder output of an article is unparsable to   *)
(* the end, triage_result holds the row of that (run, article) with status *)
(* error and message 'unparsable builder output', and no row with status   *)
(* ok.                                                                     *)
UnparsableRecorded ==
    ( ret.op = "triage_article" /\ ret.status = "error" ) =>
        /\ \E x \in triage_result :
               /\ x.run_id = ret.run_id /\ x.article_url = ret.url
               /\ x.status = "error" /\ x.error_msg = "unparsable builder output"
        /\ ~\E x \in triage_result :
               /\ x.run_id = ret.run_id /\ x.article_url = ret.url
               /\ x.status = "ok"

(* the builder vote of the triage_article call that has just returned *)
BuilderVotes(run_id, url) ==
    { v \in model_vote : v.run_id = run_id /\ v.article_url = url /\ v.role = "builder" }

(* C11 as stated: when the skeptic call of an article fails in any way     *)
(* (exception of the call, or output without JSON), the article's triage   *)
(* returns status ok and the stored S, E, T, M, H are the builder's.       *)
SkepticFailureFallsBack ==
    ( /\ ret.op = "triage_article"
      /\ ret.builder_ok
      /\ ret.skeptic_calls = 1
      /\ ~ret.skeptic_ok )
    => /\ ret.status = "ok"
       /\ \E x \in triage_result, v \in BuilderVotes(ret.run_id, ret.url) :
              /\ x.run_id = ret.run_id /\ x.article_url = ret.url
              /\ x.status = "ok"
              /\ \A k \in ScoreKeys : RowScores(x)[k] = Get(v.json_output, k, 0)

(* a failed triage_article call has returned and the batch goes on *)
TriageFailureIsolated ==
    ( ret.op = "triage_article" /\ ret.status # "ok" ) => run_loop[ret.run_id].pc = "loop"

(* an upgrade batch that takes every candidate rescored each article whose *)
(* answer the cache holds, whatever happened to the others                 *)
UpgradeFailureIsolated ==
    \A limit \in Limits :
        ( run_evidence_upgrade(limit, FALSE) /\ limit >= Cardinality(UpgradeCandidates) )
        => \A c \in UpgradeCandidates :
               LET cached == load_cache(cache, cache_key("evidence_upgrade", c.article_url))
               IN  Truthy(cached) =>
                       \A x \in triage_result' :
                           x.article_url = c.article_url => x.score_e = cached["E"]

(* C12 as stated: in a triage batch and in an evidence-upgrade batch a     *)
(* failure on one article (call error, timeout, unparsable output) never   *)
(* aborts the batch: the loop goes on to the other articles.               *)
BatchNeverAborted ==
    [][TriageFailureIsolated' /\ UpgradeFailureIsolated]_vars

SkepticVotes(run_id, url) ==
    { v \in model_vote : v.run_id = run_id /\ v.article_url = url /\ v.role = "skeptic" }

(* C13 as stated: every builder and skeptic scoring call of a              *)
(* triage_article call, succeeded, failed or answered from the cache, has  *)
(* appended one model_vote row of the run, the article and the role, with  *)
(* that call's own output (the skeptic's vote of a failed skeptic call is  *)
(* not the builder's output).                                              *)
VoteForEveryCall ==
    ret.op = "triage_article" =>
        /\ Cardinality(BuilderVotes(ret.run_id, ret.url)) = 1
        /\ ret.builder_ok =>
               \A v \in BuilderVotes(ret.run_id, ret.url) :
                   v.json_output = load_cache(cache, cache_key("builder", ret.url))
        /\ ret.builder_ok => Cardinality(SkepticVotes(ret.run_id, ret.url)) = 1
        /\ ( ret.builder_ok /\ ret.skeptic_ok ) =>
               \A v \in SkepticVotes(ret.run_id, ret.url) :
                   v.json_output = load_cache(cache, cache_key("skeptic", ret.url))
        /\ ( ret.builder_ok /\ ~ret.skeptic_ok ) =>
               \A v \in SkepticVotes(ret.run_id, ret.url),
                  w \in BuilderVotes(ret.run_id, ret.url) :
                   v.json_output # w.json_output

(* C14: no step modifies or deletes a committed model_vote row: every row  *)
(* of the table is in the table, as it was, after the step.                *)
VotesAppendOnly ==
    [][model_vote \subseteq model_vote']_vars

(* the votes of an article are there beside its triage_result row, which   *)
(* an evidence upgrade has rescored since, and beside the votes of a       *)
(* later run                                                               *)
VotesAppendOnlyWitness ==
    \E v \in model_vote, w \in model_vote, x \in triage_result :
        /\ v.role = "skeptic" /\ v.run_id = x.run_id /\ v.article_url = x.article_url
        /\ x.score_e = 4
        /\ Get(v.json_output, "E", 0) # x.score_e
        /\ w.run_id # v.run_id /\ w.article_url = v.article_url /\ w.role = v.role

-----------------------------------------------------------------------------
(* Properties of the response cache (checked under SpecCache)               *)

(* C15 as stated: two identical scoring calls in sequence make at most one *)
(* call of the endpoint in total and return equal results, whether the     *)
(* first call succeeded or failed.                                         *)
CacheIdempotent ==
    Len(fn_out) = 2 =>
        /\ fn_out[1].calls + fn_out[2].calls <= 1
        /\ fn_out[1].result = fn_out[2].result
        /\ fn_out[1].raised = fn_out[2].raised

-----------------------------------------------------------------------------
(* Properties of the evidence upgrade (checked under Spec)                  *)

(* y is x with at most score_e, score_h, route and frontier_flag changed *)
Rescored(x, y) ==
    y = [x EXCEPT !.score_e = y.score_e, !.score_h = y.score_h,
                  !.route = y.route, !.frontier_flag = y.frontier_flag]

(* C16 as stated: an evidence-upgrade pass changes only the score_e,       *)
(* score_h, route and frontier_flag of the rows it upgrades (the           *)
(* candidates); every other field of such a row and every other row is     *)
(* left as it is.                                                          *)
UpgradeFrame ==
    [][\A limit \in Limits :
          run_evidence_upgrade(limit, FALSE) =>
              \A x \in triage_result :
                  \/ x \in triage_result'
                  \/ /\ x \in UpgradeCandidates
                     /\ \E y \in triage_result' : Rescored(x, y)]_vars

(* C17 as stated: a step that changes the score_e or score_h of a          *)
(* triage_result row appends a model_vote row for the article, from which  *)
(* the old and the new values can be read.                                 *)
UpgradeAudited ==
    [][\A x \in triage_result, y \in triage_result' :
          ( /\ x.run_id = y.run_id /\ x.article_url = y.article_url
            /\ (x.score_e # y.score_e \/ x.score_h # y.score_h) )
          => \E v \in model_vote' \ model_vote :
                 /\ v.article_url = x.article_url
                 /\ Get(v.json_output, "old_E", -1) = x.score_e
                 /\ Get(v.json_output, "E", -1) = y.score_e]_vars

(* C18 as stated: an evidence-upgrade pass gives every article that is not *)
(* eligible (not access_state = oa_pdf_found with score_e <= 2) the        *)
(* explicit outcome 'not eligible', and leaves its triage_result row as it *)
(* is.                                                                     *)
UpgradeNotEligible ==
    [][\A limit \in Limits :
       \A X \in TopN(UpgradeCandidates, limit, "") :
       \A last \in FirstByUrl(X, ""), replies \in [UrlsOf(X) -> Replies(EvidenceOutputs)] :
          ( run_evidence_upgrade(limit, FALSE) /\ upgrade_batch(X, last, replies) ) =>
              \A x \in triage_result \ UpgradeCandidates :
                  /\ x \in triage_result'
                  /\ x.article_url \in DOMAIN upgrade_outcomes(X, replies)
                  /\ upgrade_outcomes(X, replies)[x.article_url] = "not eligible"]_vars

-----------------------------------------------------------------------------
(* C20 as stated: selection is deterministic.  From a state with an empty  *)
(* issue table, whatever rows a committed call of select_for_discipline    *)
(* for a (week_of, discipline) writes, every other execution of the call   *)
(* from the same state writes the same rows (urls, slots, rank scores),    *)
(* ties on the ordering keys at the quota boundary included.               *)
SelectionDeterministic ==
    [][\A week_of \in Weeks, discipline \in Disciplines :
          ( SelectCall(week_of, discipline) /\ Selected' /\ issue = {} )
          => \A t \in SelectOutcomes(week_of, discipline) : issue' = t]_vars

-----------------------------------------------------------------------------
(* C23 as stated: after a successful evidence upgrade of a result (a row   *)
(* of the batch whose rescoring returned status ok), the row's route and   *)
(* frontier_flag are those of the routing rules applied to the S, T and M  *)
(* the row held before the upgrade and to its new E and H.                 *)
UpgradeRouteRecomputed ==
    [][\A limit \in Limits :
       \A X \in TopN(UpgradeCandidates, limit, "") :
       \A last \in FirstByUrl(X, ""), replies \in [UrlsOf(X) -> Replies(EvidenceOutputs)] :
          ( run_evidence_upgrade(limit, FALSE) /\ upgrade_batch(X, last, replies) ) =>
              \A x \in X :
                  upgrade_outcomes(X, replies)[x.article_url] = "ok" =>
                      \E y \in triage_result' :
                          /\ y.run_id = x.run_id
                          /\ y.article_url = x.article_url
                          /\ <<y.route, y.frontier_flag = 1>> =
                                 upgrade_compute_route(x.score_s, y.score_e, x.score_t,
                                                       x.score_m, y.score_h)]_vars

-----------------------------------------------------------------------------
(* C29 as stated: an evidence upgrade performed for the candidate rows of  *)
(* a batch changes no triage_result row of a run other than the            *)
(* candidates' runs, also when that run has a result for a candidate's     *)
(* article.                                                                *)
UpgradeOwnRunOnly ==
    [][\A limit \in Limits :
       \A X \in TopN(UpgradeCandidates, limit, "") :
       \A last \in FirstByUrl(X, ""), replies \in [UrlsOf(X) -> Replies(EvidenceOutputs)] :
          ( run_evidence_upgrade(limit, FALSE) /\ upgrade_batch(X, last, replies) ) =>
              \A x \in triage_result :
                  ( \A c \in X : c.run_id # x.run_id ) => x \in triage_result']_vars

-----------------------------------------------------------------------------
(* the access states of the schema's comment *)
AccessStates == {"unknown", "abstract_only", "oa_pdf_found", "paywalled"}

(* C22 as stated: in every reachable state the access_state of every       *)
(* triage_result row and of every issue row is one of unknown,             *)
(* abstract_only, oa_pdf_found, paywalled.                                 *)
AccessStateDomain ==
    /\ \A x \in triage_result : x.access_state \in AccessStates
    /\ \A i \in issue : i.access_state \in AccessStates

-----------------------------------------------------------------------------
(* Properties of concurrent selection (checked under SpecConcurrent)        *)

(* C19 as stated: of two selection invocations for the same                *)
(* (week_of, discipline), under every interleaving of their steps, at most *)
(* one writes issue rows; the other writes none.                           *)
OneSelectionWrites ==
    \A p, q \in Selectors :
        ( /\ p # q
          /\ selecting[p].pc = "done" /\ selecting[q].pc = "done"
          /\ selecting[p].week_of = selecting[q].week_of
          /\ selecting[p].discipline = selecting[q].discipline )
        => ( selecting[p].wrote = {} \/ selecting[q].wrote = {} )

-----------------------------------------------------------------------------
(* Properties of the parse boundary (checked under SpecUnchecked)           *)

(* C21 as stated: every triage_result row with status ok holds S, E, T, M  *)
(* and H in 0..5, whatever the builder, the skeptic and the rescoring      *)
(* answer: an object with a score out of range or missing is never stored. *)
ScoresInRange ==
    \A x \in triage_result :
        x.status = "ok" =>
            /\ x.score_s \in ScoreRange
            /\ x.score_e \in ScoreRange
            /\ x.score_t \in ScoreRange
            /\ x.score_m \in ScoreRange
            /\ x.score_h \in ScoreRange

-----------------------------------------------------------------------------
(* Properties of selection as a function of the table (checked under       *)
(* SpecSelect)                                                             *)

(* the triage results the claims call eligible for a slot with full text *)
EligibleFullText(discipline, slot) ==
    { x \in triage_result :
        /\ x.discipline = discipline
        /\ x.route = slot
        /\ x.access_state = "oa_pdf_found"
        /\ x.status = "ok" }

(* the rows of X whose article the call has left out of the issue *)
Unselected(X) ==
    { y \in X : y.article_url \notin UrlsOf(IssueRows(ret.week_of, ret.discipline)) }

(* C24: when a committed call of select_for_discipline has written the     *)
(* indepth and digest slots of its (week_of, discipline), every article of *)
(* these slots has a triage result of the discipline with the slot's       *)
(* route, access_state oa_pdf_found and status ok, and no such result left *)
(* unselected has a strictly greater (score_e, score_t) than it.           *)
IndepthDigestChosen ==
    Selected =>
        \A slot \in {"indepth", "digest"} :
        \A i \in SlotRows(ret.week_of, ret.discipline, slot) :
            \E x \in EligibleFullText(ret.discipline, slot) :
                /\ x.article_url = i.article_url
                /\ \A y \in Unselected(EligibleFullText(ret.discipline, slot)) :
                       ~( \/ y.score_e > x.score_e
                          \/ y.score_e = x.score_e /\ y.score_t > x.score_t )

(* an article was chosen for one of the two slots over another of the slot *)
(* that has the greater score_t but the smaller score_e                    *)
IndepthDigestChosenWitness ==
    /\ Selected
    /\ \E slot \in {"indepth", "digest"} :
       \E i \in SlotRows(ret.week_of, ret.discipline, slot) :
       \E x, y \in EligibleFullText(ret.discipline, slot) :
           /\ x.article_url = i.article_url
           /\ y \in Unselected({y})
           /\ x.score_e > y.score_e
           /\ x.score_t < y.score_t

(* the triage results the claims call eligible for the blurb slot *)
EligibleBlurb(discipline) ==
    { x \in triage_result :
        /\ x.discipline = discipline
        /\ x.route = "blurb"
        /\ x.access_state \in {"oa_pdf_found", "abstract_only"}
        /\ x.status = "ok" }

(* C25: when a committed call of select_for_discipline has written the     *)
(* blurb slot of its (week_of, discipline), every article of the slot has  *)
(* a triage result with route blurb and access_state oa_pdf_found or       *)
(* abstract_only, the one its issue row records; an abstract_only one was  *)
(* chosen only if no eligible oa_pdf_found blurb is left unselected, and   *)
(* no unselected candidate of the same access_state has a strictly greater *)
(* (score_s, score_t).                                                     *)
BlurbChosen ==
    Selected =>
        \A i \in SlotRows(ret.week_of, ret.discipline, "blurb") :
            \E x \in EligibleBlurb(ret.discipline) :
                /\ x.article_url = i.article_url
                /\ x.access_state = i.access_state
                /\ \A y \in Unselected(EligibleBlurb(ret.discipline)) :
                       /\ ~( x.access_state = "abstract_only"
                             /\ y.access_state = "oa_pdf_found" )
                       /\ y.access_state = x.access_state =>
                              ~( \/ y.score_s > x.score_s
                                 \/ y.score_s = x.score_s /\ y.score_t > x.score_t )

(* an oa_pdf_found blurb was chosen over an abstract_only blurb with the   *)
(* greater score_s                                                         *)
BlurbChosenWitness ==
    /\ Selected
    /\ \E i \in SlotRows(ret.week_of, ret.discipline, "blurb") :
       \E x, y \in EligibleBlurb(ret.discipline) :
           /\ x.article_url = i.article_url
           /\ i.access_state = "oa_pdf_found"
           /\ x.access_state = "oa_pdf_found"
           /\ y \in Unselected({y})
           /\ y.access_state = "abstract_only"
           /\ y.score_s > x.score_s

(* C26: every issue row a committed call of select_for_discipline has      *)
(* written records, in hundredths, rank_score = 55 E + 45 T - 60 H + 25 S  *)
(* + 15 M of a triage result of its article with the row's slot as route   *)
(* and the row's access_state, for every score vector of 0..5.             *)
RankScoreRecorded ==
    Selected =>
        \A i \in IssueRows(ret.week_of, ret.discipline) :
            \E x \in triage_result :
                /\ x.article_url = i.article_url
                /\ x.discipline = i.discipline
                /\ x.route = i.slot
                /\ x.access_state = i.access_state
                /\ i.rank_score = 55 * x.score_e + 45 * x.score_t - 60 * x.score_h
                                    + 25 * x.score_s + 15 * x.score_m

(* an issue row was written from a result with a hype risk, every other    *)
(* score positive too                                                      *)
RankScoreRecordedWitness ==
    /\ Selected
    /\ \E i \in IssueRows(ret.week_of, ret.discipline) :
       \E x \in triage_result :
           /\ x.article_url = i.article_url
           /\ x.route = i.slot
           /\ x.score_h = 2
           /\ x.score_s = 4 /\ x.score_e = 3 /\ x.score_t = 5 /\ x.score_m = 1
           /\ i.rank_score = 385

-----------------------------------------------------------------------------
(* C27: in every reachable state the issue table holds at most one row for *)
(* a (week_of, discipline, article_url): an article has at most one slot   *)
(* of an issue, also when its triage results of several runs have          *)
(* different routes.                                                       *)
OneSlotPerArticle ==
    \A i, j \in issue :
        ( /\ i.week_of = j.week_of
          /\ i.discipline = j.discipline
          /\ i.article_url = j.article_url )
        => i = j

(* a call has just written the issue row of an article that is a candidate *)
(* of the indepth slot by one run's result and of the blurb slot by        *)
(* another's                                                               *)
OneSlotPerArticleWitness ==
    /\ Selected
    /\ \E i \in IssueRows(ret.week_of, ret.discipline) :
       \E x \in EligibleFullText(ret.discipline, "indepth"),
          y \in EligibleBlurb(ret.discipline) :
           /\ x.article_url = i.article_url
           /\ y.article_url = i.article_url
           /\ x.run_id # y.run_id

-----------------------------------------------------------------------------
(* Properties of triage run step by step (checked under SpecAtomic)         *)

(* C28: wherever a triage batch is interrupted, every committed            *)
(* triage_result row with status ok has a committed builder vote and a     *)
(* committed skeptic vote of its (run, article), and every committed vote  *)
(* has the committed result of its (run, article).                         *)
TriageAtomic ==
    /\ \A x \in triage_result :
           x.status = "ok" =>
               /\ BuilderVotes(x.run_id, x.article_url) # {}
               /\ SkepticVotes(x.run_id, x.article_url) # {}
    /\ \A v \in model_vote :
           \E x \in triage_result :
               x.run_id = v.run_id /\ x.article_url = v.article_url

(* a result is committed, and a batch has ended inside triage_article      *)
(* after the builder vote of another article was inserted (the builder's   *)
(* answer is in the cache, the article has no result)                      *)
TriageAtomicWitness ==
    /\ triage_result # {}
    /\ \E r \in Runs : run_loop[r].pc = "closed"
    /\ txn.pc = "idle"
    /\ \E f \in cache : /\ f.key[1] = "builder"
                       /\ \A x \in triage_result : x.article_url # f.key[2]

-----------------------------------------------------------------------------
(* Properties of selection over several periods (checked under SpecPeriods) *)

(* C30 as stated: every issue row of a period is of an article that has a  *)
(* triage result in a triage run whose week_of is that period.             *)
SelectionPeriodScoped ==
    \A i \in issue :
        \E x \in triage_result, r \in triage_run :
            /\ x.article_url = i.article_url
            /\ x.run_id = r.run_id
            /\ r.week_of = i.week_of

====
